---- MODULE Spec2Model ----
(***************************************************************************)
(* A model of sqlalchemy_searchable/__init__.py: the query normaliser      *)
(* (parse_search_query, filter_term), the SQL construct family             *)
(* (SQLConstruct and its four subclasses) and the SearchManager that       *)
(* registers the generated DDL on a table's after_create / after_drop      *)
(* hooks.                                                                  *)
(*                                                                         *)
(* Python strings that are only concatenated and compared are TLA+         *)
(* strings; strings that are scanned character by character (the search    *)
(* query) are sequences of one-character strings.  A dict is a function    *)
(* from its keys (strings) to its values; the empty dict and None are both *)
(* the empty function << >> where the code tests them with "not options".  *)
(***************************************************************************)
EXTENDS Integers, Sequences, FiniteSets, TLC

VARIABLES
    default_options,   \* the class attribute SearchManager.default_options
    managers,          \* the SearchManager instances, in creation order
    listeners,         \* managers listening on the mapper's instrument_class
    after_create,      \* per table: the DDL listeners of after_create, in order
    after_drop,        \* per table: the DDL listeners of after_drop, in order
    visits,            \* history: how often (0, 1, 2 = more) a column was met
    events,            \* history: number of instrument_class events so far
    built,             \* the last SQL construct built directly by a caller
    parsed             \* the last parse_search_query call and its outcome

vars == <<default_options, managers, listeners, after_create, after_drop,
          visits, events, built, parsed>>

-----------------------------------------------------------------------------
(* Bounds of the model. *)

MaxManagers == 2
MaxListeners == 1
MaxEvents == 3
MaxLen == 4

-----------------------------------------------------------------------------
(* Dicts. *)

EmptyDict == << >>

\* dict.update(other): the keys of other overwrite those of d, in place.
DictUpdate(d, other) == other @@ d

Overwrite(d, key, value) == (key :> value) @@ d

\* dict.setdefault(key, value): sets the key only when it is absent.
SetDefault(d, key, value) == IF key \in DOMAIN d THEN d ELSE d @@ (key :> value)

Range(s) == {s[i] : i \in DOMAIN s}

-----------------------------------------------------------------------------
(* SearchManager.default_options as the class body defines it.  A name     *)
(* template is the sequence of its literal parts and placeholders.         *)

OptionKeys ==
    <<"tablename", "remove_hyphens", "search_trigger_name",
      "search_index_name", "search_trigger_function_name", "catalog">>

InitialDefaultOptions ==
    [tablename |-> "None",
     remove_hyphens |-> TRUE,
     search_trigger_name |-> <<"{table}", "_", "{column}", "_trigger">>,
     search_index_name |-> <<"{table}", "_", "{column}", "_index">>,
     search_trigger_function_name |-> <<"{table}", "_", "{column}", "_update">>,
     catalog |-> "pg_catalog.english"]

\* str.format(table=..., column=...) on a name template.
RECURSIVE Format(_, _, _)
Format(template, table, column) ==
    IF template = << >> THEN ""
    ELSE (CASE Head(template) = "{table}" -> table
            [] Head(template) = "{column}" -> column
            [] OTHER -> Head(template))
         \o Format(Tail(template), table, column)

\* ', '.join(parts)
RECURSIVE JoinComma(_)
JoinComma(parts) ==
    IF parts = << >> THEN ""
    ELSE IF Len(parts) = 1 THEN parts[1]
    ELSE parts[1] \o ", " \o JoinComma(Tail(parts))

-----------------------------------------------------------------------------
(* The declarative classes the mapper can instrument: a table (schema,     *)
(* name) and its columns.  A TSVectorType column carries the source        *)
(* columns (type.columns) and the options it declares (type.options).      *)

Col(name, tsvector, columns, options) ==
    [name |-> name, tsvector |-> tsvector, columns |-> columns, options |-> options]

Classes ==
    << [table |-> [schema |-> "", name |-> "article"],
        c |-> << Col("id", FALSE, << >>, EmptyDict),
                 Col("search_vector", TRUE, <<"name", "content">>, EmptyDict),
                 Col("name_vector", TRUE, <<"name">>,
                     [remove_hyphens |-> TRUE, catalog |-> "pg_catalog.simple"]) >>],
       [table |-> [schema |-> "", name |-> "a_b"],
        c |-> << Col("c", TRUE, <<"name">>, [remove_hyphens |-> FALSE]) >>],
       [table |-> [schema |-> "", name |-> "a"],
        c |-> << Col("b_c", TRUE, << >>, EmptyDict) >>],
       [table |-> [schema |-> "other", name |-> "article"],
        c |-> << Col("search_vector", TRUE, <<"title">>,
                     [catalog |-> "pg_catalog.finnish"]) >>] >>

ClassIds == DOMAIN Classes

\* The options a caller passes to SearchManager(...), make_searchable(...)
\* or a SQL construct.
UserOptions ==
    { EmptyDict,
      [remove_hyphens |-> FALSE],
      [catalog |-> "pg_catalog.finnish"] }

ExplicitOptions ==
    UserOptions \cup
    { [catalog |-> "pg_catalog.swedish", remove_hyphens |-> TRUE],
      [search_index_name |-> <<"ix_", "{column}">>] }

-----------------------------------------------------------------------------
(* quote_identifier and SQLConstruct. *)

\* Defined by the module but called by none of the constructs below.
quote_identifier(identifier) == "\"" \o identifier \o "\""

\* The loop of SQLConstruct.__init__: for every key of the defaults, the
\* column's declared value if it declares one (KeyError / AttributeError
\* otherwise), else the default; setdefault keeps a key options already has.
RECURSIVE ResolveLoop(_, _, _, _)
ResolveLoop(keys, options, column, defaults) ==
    IF keys = << >> THEN options
    ELSE LET key == Head(keys)
             option == IF key \in DOMAIN column.options
                       THEN column.options[key]
                       ELSE defaults[key]
         IN ResolveLoop(Tail(keys), SetDefault(options, key, option), column, defaults)

\* SQLConstruct.__init__(column, options).  `arg` is the caller's options
\* object after the call: a falsy argument is replaced by a fresh dict, any
\* other argument is the very dict the loop fills in.
SQLConstruct(table, column, options) ==
    LET resolved == ResolveLoop(OptionKeys, options, column, default_options)
    IN [table |-> table,
        column |-> column,
        options |-> resolved,
        arg |-> IF options = EmptyDict THEN options ELSE resolved]

table_name(self) ==
    IF self.table.schema # ""
    THEN self.table.schema \o "." \o "\"" \o self.table.name \o "\""
    ELSE "\"" \o self.table.name \o "\""

search_index_name(self) ==
    Format(self.options["search_index_name"], self.table.name, self.column.name)

search_function_name(self) ==
    Format(self.options["search_trigger_function_name"],
           self.table.name, self.column.name)

search_trigger_name(self) ==
    Format(self.options["search_trigger_name"], self.table.name, self.column.name)

search_function_args(self) ==
    "CONCAT("
    \o JoinComma([i \in DOMAIN self.column.columns |->
          "REPLACE(COALESCE(NEW." \o self.column.columns[i] \o ", ''), '-', ' '), ' '"])
    \o ")"

CreateSearchFunctionSQL(self) ==
    "CREATE FUNCTION\n                "
    \o search_function_name(self)
    \o "() RETURNS TRIGGER AS $$\n            BEGIN\n                NEW."
    \o self.column.name
    \o " = to_tsvector(\n                    "
    \o "'" \o self.options["catalog"] \o "', " \o search_function_args(self)
    \o "\n                );\n                RETURN NEW;\n            END\n"
    \o "            $$ LANGUAGE 'plpgsql';\n            "

TriggerArgsIfHyphensAndColumns(self) ==
    IF self.options["remove_hyphens"] /\ self.column.columns # << >>
    THEN search_function_name(self) \o "()"
    ELSE "tsvector_update_trigger("
         \o JoinComma(<<self.column.name, "'" \o self.options["catalog"] \o "'">>
                      \o self.column.columns)
         \o ")"

search_trigger_function_with_trigger_args(self) ==
    IF self.options["remove_hyphens"]
    THEN search_function_name(self) \o "()"
    ELSE "tsvector_update_trigger("
         \o JoinComma(<<self.column.name, "'" \o self.options["catalog"] \o "'">>
                      \o self.column.columns)
         \o ")"

CreateSearchTriggerSQL(self) ==
    "CREATE TRIGGER " \o search_trigger_name(self)
    \o " BEFORE UPDATE OR INSERT ON " \o table_name(self)
    \o " FOR EACH ROW EXECUTE PROCEDURE "
    \o search_trigger_function_with_trigger_args(self)

CreateSearchIndexSQL(self) ==
    "CREATE INDEX " \o search_index_name(self)
    \o " ON " \o table_name(self)
    \o " USING gin(" \o self.column.name \o ")"

DropSearchFunctionSQL(self) ==
    "DROP FUNCTION IF EXISTS " \o search_function_name(self) \o "()"

Kinds == {"index", "function", "trigger", "drop"}

Render(kind, self) ==
    CASE kind = "index" -> CreateSearchIndexSQL(self)
      [] kind = "function" -> CreateSearchFunctionSQL(self)
      [] kind = "trigger" -> CreateSearchTriggerSQL(self)
      [] kind = "drop" -> DropSearchFunctionSQL(self)

-----------------------------------------------------------------------------
(* SearchManager. *)

\* SearchManager.__init__ binds self.options to the class attribute itself,
\* so every manager's options is a reference to default_options.
DefaultOptionsRef == "SearchManager.default_options"

Deref(ref) == default_options

\* SearchManager.option(column, name)
option(m, column, name) ==
    IF name \in DOMAIN column.options
    THEN column.options[name]
    ELSE Deref(managers[m].options)[name]

\* SearchManager.inspect_columns(cls)
inspect_columns(cid) == SelectSeq(Classes[cid].c, LAMBDA column : column.tsvector)

\* The dedup key of a column and the membership test on processed_columns.
ColumnKey(table, column) == table.name \o "_" \o column.name

NeverProcessed(processed_columns, column_name) == FALSE

IsProcessed(processed_columns, column_name) ==
    column_name \in Range(processed_columns)

\* One listener: the phase it is attached to and the DDL it executes.  kind,
\* manager and col record which construct of which column produced the text.
Listener(phase, kind, m, table, column) ==
    [phase |-> phase, kind |-> kind, manager |-> m, col |-> column.name,
     text |-> Render(kind, SQLConstruct(table, column, EmptyDict))]

TriggerBeforeFunction(m, table, column) ==
    << Listener("after_create", "index", m, table, column) >>
    \o (IF column.columns # << >>
        THEN << Listener("after_create", "trigger", m, table, column) >>
             \o (IF option(m, column, "remove_hyphens")
                 THEN << Listener("after_create", "function", m, table, column),
                         Listener("after_drop", "drop", m, table, column) >>
                 ELSE << >>)
        ELSE << >>)

TriggerWithoutColumns(m, table, column) ==
    << Listener("after_create", "index", m, table, column) >>
    \o (IF column.columns # << >> /\ option(m, column, "remove_hyphens")
        THEN << Listener("after_create", "function", m, table, column),
                Listener("after_drop", "drop", m, table, column) >>
        ELSE << >>)
    \o << Listener("after_create", "trigger", m, table, column) >>

\* The event.listen calls of one unprocessed column, in the order made.
ColumnListeners(m, table, column) ==
    << Listener("after_create", "index", m, table, column) >>
    \o (IF column.columns # << >>
        THEN (IF option(m, column, "remove_hyphens")
              THEN << Listener("after_create", "function", m, table, column),
                      Listener("after_drop", "drop", m, table, column) >>
              ELSE << >>)
             \o << Listener("after_create", "trigger", m, table, column) >>
        ELSE << >>)

\* event.listen(table, phase, ddl) for each listener of the sequence.
RECURSIVE ListenAll(_, _, _)
ListenAll(st, cid, ls) ==
    IF ls = << >> THEN st
    ELSE LET l == Head(ls)
             st1 == IF l.phase = "after_create"
                    THEN [st EXCEPT !.after_create[cid] = Append(@, l)]
                    ELSE [st EXCEPT !.after_drop[cid] = Append(@, l)]
         IN ListenAll(st1, cid, Tail(ls))

\* The body of the loop of attach_ddl_listeners for one column.
AttachColumn(st, m, cid, k) ==
    LET table == Classes[cid].table
        column == Classes[cid].c[k]
        column_name == ColumnKey(table, column)
        seen == [st EXCEPT !.visits[<<m, cid, k>>] = IF @ < 2 THEN @ + 1 ELSE @]
    IN IF IsProcessed(seen.managers[m].processed_columns, column_name)
       THEN seen
       ELSE LET st1 == ListenAll(seen, cid, ColumnListeners(m, table, column))
            IN [st1 EXCEPT !.managers[m].processed_columns = Append(@, column_name)]

\* SearchManager.attach_ddl_listeners(mapper, cls): the loop over the
\* searchable columns of the class, from column index k on.
RECURSIVE attach_ddl_listeners(_, _, _, _)
attach_ddl_listeners(st, m, cid, k) ==
    IF k > Len(Classes[cid].c) THEN st
    ELSE IF Classes[cid].c[k].tsvector
         THEN attach_ddl_listeners(AttachColumn(st, m, cid, k), m, cid, k + 1)
         ELSE attach_ddl_listeners(st, m, cid, k + 1)

\* The mapper fires instrument_class: every listener runs, in listen order.
RECURSIVE FireInstrumentClass(_, _, _)
FireInstrumentClass(st, ls, cid) ==
    IF ls = << >> THEN st
    ELSE FireInstrumentClass(attach_ddl_listeners(st, Head(ls), cid, 1), Tail(ls), cid)

-----------------------------------------------------------------------------
(* parse_search_query.  A query is a sequence of one-character strings. *)

Whitespace == {" ", "\t", "\n"}

Alnum == {"a", "b", "f", "o", "r", "z"}

\* The characters the exhaustive queries are built from.
Alphabet == {"a", "-", " ", "|", "^", "(", ")"}

\* Longer queries of interest: the spec's examples, e-mail addresses, the
\* or keyword.
ExtraQueries ==
    { <<"f", "o", "o", "-", "b", "a", "r", " ", "b", "a", "z">>,
      <<"-", "f", "o", "o", " ", "b", "a", "r">>,
      <<"a", "@", "b", ".", "a", "a">>,
      <<"a", "-", "b", "@", "b", ".", "a", "a">>,
      <<"a", " ", "o", "r", " ", "b">>,
      <<"(", "a", " ", "o", "r", " ", "-", "b", ")", " ", "a">>,
      <<"\t", "a", "|", "-", "b", " ">> }

Queries == UNION {[1..n -> Alphabet] : n \in 0..MaxLen} \cup ExtraQueries

\* str(chars): the characters as one string.
RECURSIVE Str(_)
Str(chars) == IF chars = << >> THEN "" ELSE Head(chars) \o Str(Tail(chars))

\* str.strip()
RECURSIVE LStrip(_)
LStrip(s) == IF s # << >> /\ Head(s) \in Whitespace THEN LStrip(Tail(s)) ELSE s

RECURSIVE RStrip(_)
RStrip(s) ==
    IF s # << >> /\ s[Len(s)] \in Whitespace
    THEN RStrip(SubSeq(s, 1, Len(s) - 1))
    ELSE s

Strip(s) == RStrip(LStrip(s))

\* re.sub(r'(?i)(?<=[^\s|^])-(?=[^\s])', ' ', query): the lookbehind is one
\* character that is not whitespace, not '|' and not '^'; the lookahead is
\* one character that is not whitespace.  Both look at the original string.
HyphenSub(query) ==
    [i \in DOMAIN query |->
        IF /\ query[i] = "-"
           /\ i > 1 /\ query[i - 1] \notin (Whitespace \cup {"|", "^"})
           /\ i < Len(query) /\ query[i + 1] \notin Whitespace
        THEN " " ELSE query[i]]

\* str.split(): the maximal runs of non-whitespace characters.
RECURSIVE SplitFrom(_, _)
SplitFrom(s, word) ==
    IF s = << >> THEN (IF word = << >> THEN << >> ELSE <<word>>)
    ELSE IF Head(s) \in Whitespace
         THEN (IF word = << >> THEN << >> ELSE <<word>>) \o SplitFrom(Tail(s), << >>)
         ELSE SplitFrom(Tail(s), Append(word, Head(s)))

Split(s) == SplitFrom(s, << >>)

\* ' '.join(parts)
RECURSIVE JoinSpace(_)
JoinSpace(parts) ==
    IF parts = << >> THEN << >>
    ELSE IF Len(parts) = 1 THEN parts[1]
    ELSE parts[1] \o <<" ">> \o JoinSpace(Tail(parts))

\* validators.email(term), reduced to: one '@', a non-empty user part of
\* letters, dots and hyphens, and a domain of letters, a dot and at least two
\* letters.
email(term) ==
    \E at \in DOMAIN term, dot \in DOMAIN term :
        /\ term[at] = "@" /\ term[dot] = "."
        /\ 1 < at /\ at + 1 < dot /\ dot + 2 <= Len(term)
        /\ \A i \in 1..(at - 1) : term[i] \in Alnum \cup {".", "-"}
        /\ \A i \in (at + 1)..(dot - 1) : term[i] \in Alnum
        /\ \A i \in (dot + 1)..Len(term) : term[i] \in Alnum

\* parser.unicode_non_alnum, restricted to the characters of the model: every
\* character that is neither alphanumeric nor part of the query syntax.
unicode_non_alnum == {"|", "^", "@", ".", "!"}

\* re.sub(r'[%s]+' % unicode_non_alnum, ' ', term): every maximal run of
\* illegal characters becomes one space.
RECURSIVE SubIllegal(_, _)
SubIllegal(term, inRun) ==
    IF term = << >> THEN << >>
    ELSE IF Head(term) \in unicode_non_alnum
         THEN (IF inRun THEN << >> ELSE <<" ">>) \o SubIllegal(Tail(term), TRUE)
         ELSE <<Head(term)>> \o SubIllegal(Tail(term), FALSE)

filter_term(term) == IF email(term) THEN term ELSE SubIllegal(term, FALSE)

\* SearchQueryParser.parse: tokens are '(' , ')' , '-' and words.
RECURSIVE TokensFrom(_, _)
TokensFrom(s, word) ==
    LET flush == IF word = << >> THEN << >> ELSE <<Str(word)>>
    IN IF s = << >> THEN flush
       ELSE IF Head(s) \in Whitespace THEN flush \o TokensFrom(Tail(s), << >>)
       ELSE IF Head(s) \in {"(", ")", "-"}
            THEN flush \o <<Head(s)>> \o TokensFrom(Tail(s), << >>)
            ELSE TokensFrom(Tail(s), Append(word, Head(s)))

Tokenize(s) == TokensFrom(s, << >>)

NoParseResult == [ok |-> FALSE, out |-> "", rest |-> << >>]

RECURSIVE ParseOr(_), ParseAnd(_), ParseNot(_), ParseAtom(_)

\* atom := word | '(' or_expr ')'
ParseAtom(ts) ==
    IF ts = << >> \/ Head(ts) \in {")", "-", "or"} THEN NoParseResult
    ELSE IF Head(ts) = "("
         THEN LET e == ParseOr(Tail(ts))
              IN IF e.ok /\ e.rest # << >> /\ Head(e.rest) = ")"
                 THEN [ok |-> TRUE, out |-> "(" \o e.out \o ")", rest |-> Tail(e.rest)]
                 ELSE NoParseResult
         ELSE [ok |-> TRUE, out |-> Head(ts), rest |-> Tail(ts)]

\* not_expr := '-' atom | atom
ParseNot(ts) ==
    IF ts # << >> /\ Head(ts) = "-"
    THEN LET a == ParseAtom(Tail(ts))
         IN IF a.ok THEN [a EXCEPT !.out = "!" \o a.out] ELSE NoParseResult
    ELSE ParseAtom(ts)

\* and_expr := not_expr+   (adjacency is conjunction)
ParseAnd(ts) ==
    LET l == ParseNot(ts)
    IN IF ~l.ok THEN NoParseResult
       ELSE IF l.rest = << >> \/ Head(l.rest) \in {")", "or"} THEN l
       ELSE LET r == ParseAnd(l.rest)
            IN IF r.ok THEN [r EXCEPT !.out = l.out \o " & " \o r.out]
               ELSE NoParseResult

\* or_expr := and_expr ('or' and_expr)*
ParseOr(ts) ==
    LET l == ParseAnd(ts)
    IN IF ~l.ok THEN NoParseResult
       ELSE IF l.rest # << >> /\ Head(l.rest) = "or"
       THEN LET r == ParseOr(Tail(l.rest))
            IN IF r.ok THEN [r EXCEPT !.out = l.out \o " | " \o r.out]
               ELSE NoParseResult
       ELSE l

\* parser.parse(query): the canonical expression, or ParseException.
ParserParse(query) ==
    LET r == ParseOr(Tokenize(query))
    IN IF r.ok /\ r.rest = << >>
       THEN [raised |-> FALSE, value |-> r.out]
       ELSE [raised |-> TRUE, value |-> "ParseException"]

UncaughtParse(query) ==
    LET r == ParserParse(query)
    IN IF r.raised THEN [outcome |-> "raise", value |-> r.value]
       ELSE [outcome |-> "return", value |-> r.value]

\* try: return parser.parse(query) / except ParseException: return u''
TryParse(query) ==
    LET r == ParserParse(query)
    IN IF r.raised THEN [outcome |-> "return", value |-> ""]
       ELSE [outcome |-> "return", value |-> r.value]

\* [filter_term(part).strip() for part in parts if part]
FilteredParts(parts) == [i \in DOMAIN parts |-> Strip(filter_term(parts[i]))]

\* parse_search_query(query): the intermediate values and the outcome.
parse_search_query(query) ==
    LET stripped == Strip(query)
        converted == HyphenSub(stripped)
        normalized == JoinSpace(FilteredParts(Split(converted)))
        r == IF normalized = << >>
             THEN [outcome |-> "return", value |-> ""]
             ELSE TryParse(normalized)
    IN [pc |-> "done", query |-> query, stripped |-> stripped,
        converted |-> converted, normalized |-> normalized,
        grammar |-> normalized # << >>,
        outcome |-> r.outcome, value |-> r.value]

-----------------------------------------------------------------------------
(* Actions. *)

NoConstruct == [kind |-> "none"]
NoParse == [pc |-> "idle"]

Triples ==
    {<<m, cid, k>> \in (1..MaxManagers) \X ClassIds \X (1..3) :
        k <= Len(Classes[cid].c)}

\* The state after import: the class attribute as written and the module
\* level search_manager = SearchManager().
Init ==
    /\ default_options = InitialDefaultOptions
    /\ managers = << [options |-> DefaultOptionsRef, processed_columns |-> << >>] >>
    /\ listeners = << >>
    /\ after_create = [cid \in ClassIds |-> << >>]
    /\ after_drop = [cid \in ClassIds |-> << >>]
    /\ visits = [t \in Triples |-> 0]
    /\ events = 0
    /\ built = NoConstruct
    /\ parsed = NoParse

\* SearchManager(options)
NewManager(options) ==
    /\ Len(managers) < MaxManagers
    /\ default_options' = DictUpdate(default_options, options)
    /\ managers' = Append(managers,
                          [options |-> DefaultOptionsRef, processed_columns |-> << >>])
    /\ UNCHANGED <<listeners, after_create, after_drop, visits, events, built, parsed>>

\* make_searchable(manager=m, options=options)
make_searchable(m, options) ==
    /\ Len(listeners) < MaxListeners
    /\ default_options' = DictUpdate(Deref(managers[m].options), options)
    /\ listeners' = Append(listeners, m)
    /\ UNCHANGED <<managers, after_create, after_drop, visits, events, built, parsed>>

\* The mapper instruments class cid and fires instrument_class.
InstrumentClass(cid) ==
    /\ events < MaxEvents
    /\ listeners # << >>
    /\ LET st == FireInstrumentClass(
                    [managers |-> managers, after_create |-> after_create,
                     after_drop |-> after_drop, visits |-> visits],
                    listeners, cid)
       IN /\ managers' = st.managers
          /\ after_create' = st.after_create
          /\ after_drop' = st.after_drop
          /\ visits' = st.visits
    /\ events' = events + 1
    /\ UNCHANGED <<default_options, listeners, built, parsed>>

\* A caller builds one construct for a column, with its own options, and
\* renders it with str().
BuildConstruct(kind, cid, k, options) ==
    /\ Classes[cid].c[k].tsvector
    /\ LET self == SQLConstruct(Classes[cid].table, Classes[cid].c[k], options)
       IN built' = [kind |-> kind, cid |-> cid, k |-> k,
                    explicit |-> options,
                    defaults |-> default_options,
                    options |-> self.options,
                    arg |-> self.arg,
                    proc |-> search_trigger_function_with_trigger_args(self),
                    text |-> Render(kind, self)]
    /\ UNCHANGED <<default_options, managers, listeners, after_create, after_drop,
                   visits, events, parsed>>

NextDDL ==
    \/ \E options \in UserOptions : NewManager(options)
    \/ \E m \in DOMAIN managers, options \in UserOptions : make_searchable(m, options)
    \/ \E cid \in ClassIds : InstrumentClass(cid)

SpecDDL == Init /\ [][NextDDL]_vars

NextSQL ==
    \/ \E options \in UserOptions : NewManager(options)
    \/ \E kind \in Kinds, cid \in ClassIds, k \in 1..3, options \in ExplicitOptions :
          k <= Len(Classes[cid].c) /\ BuildConstruct(kind, cid, k, options)

SpecSQL == Init /\ [][NextSQL]_vars

\* A caller is about to call parse_search_query with some query.
InitParse ==
    /\ default_options = InitialDefaultOptions
    /\ managers = << [options |-> DefaultOptionsRef, processed_columns |-> << >>] >>
    /\ listeners = << >>
    /\ after_create = [cid \in ClassIds |-> << >>]
    /\ after_drop = [cid \in ClassIds |-> << >>]
    /\ visits = [t \in Triples |-> 0]
    /\ events = 0
    /\ built = NoConstruct
    /\ \E query \in Queries : parsed = [pc |-> "called", query |-> query]

ParseSearchQuery ==
    /\ parsed.pc = "called"
    /\ parsed' = parse_search_query(parsed.query)
    /\ UNCHANGED <<default_options, managers, listeners, after_create, after_drop,
                   visits, events, built>>

NextParse == ParseSearchQuery

SpecParse == InitParse /\ [][NextParse]_vars

-----------------------------------------------------------------------------
(* Properties of the DDL registration (SpecDDL). *)

\* The positions in a listener sequence of the `kind` statements that
\* manager m registered for the column named col.
StmtsOf(hook, m, col, kind) ==
    {i \in DOMAIN hook :
        hook[i].kind = kind /\ hook[i].manager = m /\ hook[i].col = col}

SearchableTriples ==
    {t \in Triples : t[1] \in DOMAIN managers /\ Classes[t[2]].c[t[3]].tsvector}

RECURSIVE SumOver(_, _)
SumOver(f, S) ==
    IF S = {} THEN 0
    ELSE LET x == CHOOSE y \in S : TRUE IN f[x] + SumOver(f, S \ {x})

\* C1: for one manager, no (table, column) pair has any of its DDL
\* statements registered more than once, however often the class is
\* discovered again: processed_columns holds no key twice and its size is
\* the number of columns the manager registered an index for.
C1_NoDuplicateRegistration ==
    \A m \in DOMAIN managers :
        LET pc == managers[m].processed_columns
            mine == {t \in SearchableTriples : t[1] = m}
            indexes == [t \in mine |->
                Cardinality(StmtsOf(after_create[t[2]], m,
                                    Classes[t[2]].c[t[3]].name, "index"))]
        IN /\ \A i, j \in DOMAIN pc : pc[i] = pc[j] => i = j
           /\ \A t \in mine, kind \in Kinds :
                 Cardinality(StmtsOf(after_create[t[2]] \o after_drop[t[2]], m,
                                     Classes[t[2]].c[t[3]].name, kind)) <= 1
           /\ Len(pc) = SumOver(indexes, mine)

\* Some column was discovered at least twice by one manager and has exactly
\* one index statement.
C1_Witness ==
    \E t \in SearchableTriples :
        /\ visits[t] >= 2
        /\ Cardinality(StmtsOf(after_create[t[2]], t[1],
                               Classes[t[2]].c[t[3]].name, "index")) = 1

\* C2: on after_create the statements of one column appear in the order
\* index, trigger function, trigger; the drop-function statement is attached
\* to after_drop only, and nothing else is.
C2_CreateOrder ==
    \A cid \in ClassIds :
        LET ac == after_create[cid]
            ad == after_drop[cid]
            rank(kind) == CASE kind = "index" -> 1
                            [] kind = "function" -> 2
                            [] kind = "trigger" -> 3
                            [] OTHER -> 4
        IN /\ \A i \in DOMAIN ac : ac[i].kind # "drop"
           /\ \A i \in DOMAIN ad : ad[i].kind = "drop"
           /\ \A i, j \in DOMAIN ac :
                 (/\ ac[i].manager = ac[j].manager
                  /\ ac[i].col = ac[j].col
                  /\ rank(ac[i].kind) < rank(ac[j].kind)) => i < j

\* A table carries index, function and trigger of one column on after_create
\* and the drop-function on after_drop.
C2_Witness ==
    \E cid \in ClassIds :
        \E i, j, k \in DOMAIN after_create[cid] :
            LET ac == after_create[cid] IN
            /\ ac[i].kind = "index" /\ ac[j].kind = "function" /\ ac[k].kind = "trigger"
            /\ ac[i].col = ac[j].col /\ ac[j].col = ac[k].col
            /\ ac[i].manager = ac[j].manager /\ ac[j].manager = ac[k].manager
            /\ StmtsOf(after_drop[cid], ac[i].manager, ac[i].col, "drop") # {}

\* The step in which a manager meets a column whose key is not yet in
\* processed_columns attaches exactly: one index; one trigger iff the column
\* has source columns; one trigger function (after_create) and one
\* drop-function (after_drop) iff it has source columns and its resolved
\* remove_hyphens is true; and nothing else; and the key is processed after.
C3_StepRegistersExactly ==
    \A t \in Triples :
        LET m == t[1]
            table == Classes[t[2]].table
            column == Classes[t[2]].c[t[3]]
            key == table.name \o "_" \o column.name
            remove_hyphens ==
                IF "remove_hyphens" \in DOMAIN column.options
                THEN column.options["remove_hyphens"]
                ELSE default_options["remove_hyphens"]
            sources == column.columns # << >>
            new(kind) ==
                Cardinality(StmtsOf(after_create'[t[2]], m, column.name, kind))
                - Cardinality(StmtsOf(after_create[t[2]], m, column.name, kind))
            dropped(kind) ==
                Cardinality(StmtsOf(after_drop'[t[2]], m, column.name, kind))
                - Cardinality(StmtsOf(after_drop[t[2]], m, column.name, kind))
        IN (/\ m \in DOMAIN managers
            /\ column.tsvector
            /\ key \notin Range(managers[m].processed_columns)
            /\ visits'[t] > visits[t])
           => /\ new("index") = 1
              /\ new("trigger") = (IF sources THEN 1 ELSE 0)
              /\ new("function") = (IF sources /\ remove_hyphens THEN 1 ELSE 0)
              /\ dropped("drop") = (IF sources /\ remove_hyphens THEN 1 ELSE 0)
              /\ new("drop") = 0
              /\ \A kind \in Kinds \ {"drop"} : dropped(kind) = 0
              /\ key \in Range(managers'[m].processed_columns)

\* C3, as a property of every step: the first registration of a column
\* attaches exactly the statements its source columns and its resolved
\* remove_hyphens call for, and marks the pair processed.
C3_FirstRegistration == [][C3_StepRegistersExactly]_vars

\* The column without source columns was registered under its key and got
\* the index alone: no trigger, no trigger function, no drop-function.
C3_Witness ==
    /\ Len(after_create[3]) = 1
    /\ after_create[3][1].kind = "index"
    /\ after_drop[3] = << >>
    /\ "a_b_c" \in Range(managers[after_create[3][1].manager].processed_columns)

\* C9 (as claimed): every (table, column) pair a manager has discovered has
\* its index statement registered on that table.
C9_EveryDiscoveredPairIndexed ==
    \A t \in SearchableTriples :
        visits[t] > 0 =>
            StmtsOf(after_create[t[2]], t[1], Classes[t[2]].c[t[3]].name, "index") # {}

-----------------------------------------------------------------------------
(* Properties of the SQL constructs and the option resolution (SpecSQL). *)

BuiltColumn == Classes[built.cid].c[built.k]
BuiltTable == Classes[built.cid].table

\* The precedence the resolution is claimed to implement.
ExpectedOption(key) ==
    IF key \in DOMAIN built.explicit THEN built.explicit[key]
    ELSE IF key \in DOMAIN BuiltColumn.options THEN BuiltColumn.options[key]
    ELSE built.defaults[key]

\* C5: every key of the defaults is resolved, to the explicit value if the
\* explicit options have the key, else to the column's declared value if it
\* declares one, else to the default; the rendered statement uses exactly
\* these values.
C5_OptionPrecedence ==
    built.kind # "none" =>
        /\ \A key \in DOMAIN built.defaults :
              /\ key \in DOMAIN built.options
              /\ built.options[key] = ExpectedOption(key)
        /\ built.text =
              Render(built.kind,
                     [table |-> BuiltTable, column |-> BuiltColumn,
                      options |-> [key \in DOMAIN built.defaults |->
                                      ExpectedOption(key)]])

\* A trigger function was rendered with an explicit catalog that overrides
\* both the column's declared catalog and the default.
C5_Witness ==
    /\ built.kind = "function"
    /\ "catalog" \in DOMAIN built.explicit
    /\ "catalog" \in DOMAIN BuiltColumn.options
    /\ built.explicit["catalog"] # BuiltColumn.options["catalog"]
    /\ built.explicit["catalog"] # built.defaults["catalog"]
    /\ built.options["catalog"] = built.explicit["catalog"]

\* C6 (as claimed): the index construct of article.search_vector with
\* default options renders with the index name and the table name quoted.
C6_IndexTextQuoted ==
    (/\ built.kind = "index"
     /\ BuiltTable = [schema |-> "", name |-> "article"]
     /\ BuiltColumn.name = "search_vector"
     /\ built.explicit = EmptyDict
     /\ built.defaults = InitialDefaultOptions)
    => built.text = "CREATE INDEX \"article_search_vector_index\" ON \"article\" USING gin(search_vector)"

BuiltFunctionCall ==
    Format(built.options["search_trigger_function_name"],
           BuiltTable.name, BuiltColumn.name) \o "()"

BuiltinCall ==
    "tsvector_update_trigger("
    \o JoinComma(<<BuiltColumn.name, "'" \o built.options["catalog"] \o "'">>
                 \o BuiltColumn.columns)
    \o ")"

\* C8 (as claimed): the trigger calls the generated function exactly when
\* remove_hyphens is true and the column has source columns, and the
\* built-in tsvector_update_trigger in every other case.
C8_ProcedureAsClaimed ==
    built.kind = "trigger" =>
        built.proc = (IF built.options["remove_hyphens"] /\ BuiltColumn.columns # << >>
                      THEN BuiltFunctionCall ELSE BuiltinCall)

\* C8 (amended): the trigger calls the generated function exactly when the
\* resolved remove_hyphens is true, whether or not the column has source
\* columns, and the built-in tsvector_update_trigger with the vector column,
\* the quoted catalog and the source columns in order when it is false.
C8_ProcedureByRemoveHyphens ==
    built.kind = "trigger" =>
        /\ built.proc = (IF built.options["remove_hyphens"]
                         THEN BuiltFunctionCall ELSE BuiltinCall)
        /\ built.text =
              "CREATE TRIGGER "
              \o Format(built.options["search_trigger_name"],
                        BuiltTable.name, BuiltColumn.name)
              \o " BEFORE UPDATE OR INSERT ON "
              \o (IF BuiltTable.schema # "" THEN BuiltTable.schema \o "." ELSE "")
              \o "\"" \o BuiltTable.name \o "\""
              \o " FOR EACH ROW EXECUTE PROCEDURE " \o built.proc

\* A trigger was rendered for a column without source columns whose resolved
\* remove_hyphens is true.
C8_Witness ==
    /\ built.kind = "trigger"
    /\ built.options["remove_hyphens"]
    /\ BuiltColumn.columns = << >>
    /\ built.proc = "a_b_c_update()"

\* C10 (as claimed): the shared defaults keep their original values whatever
\* options managers are given, and building a construct leaves the caller's
\* explicit options as they were.
C10_DefaultsAndArgumentsUntouched ==
    /\ default_options = InitialDefaultOptions
    /\ built.kind # "none" => built.arg = built.explicit

-----------------------------------------------------------------------------
(* Properties of parse_search_query (SpecParse). *)

\* C4: parse_search_query never raises: an empty normalized text returns the
\* empty string without invoking the grammar, a text the grammar rejects
\* returns the empty string, any other returns the canonical expression.
C4_NeverRaises ==
    parsed.pc = "done" =>
        /\ parsed.outcome = "return"
        /\ parsed.normalized = << >> => (parsed.value = "" /\ ~parsed.grammar)
        /\ parsed.normalized # << >> =>
              /\ parsed.grammar
              /\ ParserParse(parsed.normalized).raised => parsed.value = ""
              /\ ~ParserParse(parsed.normalized).raised =>
                    parsed.value = ParserParse(parsed.normalized).value

\* The grammar was invoked on a non-empty normalized text, rejected it, and
\* the call returned the empty string.
C4_Witness ==
    /\ parsed.pc = "done"
    /\ parsed.normalized # << >>
    /\ parsed.grammar
    /\ ParserParse(parsed.normalized).raised
    /\ parsed.outcome = "return" /\ parsed.value = ""

\* C7 (as claimed): in the hyphen step a hyphen of the trimmed query becomes
\* a space iff it is preceded by a non-whitespace character and followed by
\* a non-whitespace character.
C7_HyphenIffBetweenNonSpace ==
    parsed.pc = "done" =>
        /\ Len(parsed.converted) = Len(parsed.stripped)
        /\ \A i \in DOMAIN parsed.stripped :
              parsed.stripped[i] = "-" =>
                 ((parsed.converted[i] = " ")
                  <=> (/\ i > 1 /\ parsed.stripped[i - 1] \notin Whitespace
                       /\ i < Len(parsed.stripped)
                       /\ parsed.stripped[i + 1] \notin Whitespace))

====
